---- MODULE Spec2Model ----
(***************************************************************************)
(* State-machine model of the TestAPI backend (src/TestAPI/app): the       *)
(* course, enrollment and submission tables, the course content files and  *)
(* the request handlers that read and write them, together with the        *)
(* automatic answer checker used by the submit handler.                    *)
(*                                                                         *)
(* Python values are modelled as tagged records:                           *)
(*   None / JSON null   [t |-> "null"]                                     *)
(*   int                [t |-> "int",  i |-> 3]                            *)
(*   bool               [t |-> "bool", b |-> TRUE]                         *)
(*   str                [t |-> "str",  s |-> <<"a", "b">>]  (characters)   *)
(*   list               [t |-> "list", l |-> <<v1, v2>>]                   *)
(*   dict               [t |-> "dict", d |-> [key |-> value]]              *)
(* Dictionary keys, enum members and the teacher comment are only ever     *)
(* compared for equality and are modelled as atomic strings.               *)
(***************************************************************************)
EXTENDS Integers, Sequences, FiniteSets, TLC

VARIABLES
    role,         \* User.role of every user row
    courses,      \* Course table: id -> [status, creator_id]
    files,        \* content/courses/{id}.json: id -> parsed JSON tree
    uc,           \* UC table: set of <<user_id, course_id>>
    submissions,  \* Submission table: sequence of rows, the id is the index
    pending,      \* submit requests between their lookup and their write
    resp          \* the response of the last request handled

vars == <<role, courses, files, uc, submissions, pending, resp>>

-----------------------------------------------------------------------------
(* Python values *)

None == [t |-> "null"]
JInt(i) == [t |-> "int", i |-> i]
JStr(s) == [t |-> "str", s |-> s]
JList(l) == [t |-> "list", l |-> l]
JDict(d) == [t |-> "dict", d |-> d]

IsStr(v) == v.t = "str"
IsList(v) == v.t = "list"
IsDict(v) == v.t = "dict"

\* bool(v): Python truthiness of a JSON value
Truthy(v) ==
    CASE v.t = "null" -> FALSE
      [] v.t = "int"  -> v.i # 0
      [] v.t = "bool" -> v.b
      [] v.t = "str"  -> v.s # <<>>
      [] v.t = "list" -> v.l # <<>>
      [] v.t = "dict" -> DOMAIN v.d # {}

\* dict.get(key) with the default None
DictGet(v, key) == IF key \in DOMAIN v.d THEN v.d[key] ELSE None

-----------------------------------------------------------------------------
(* Strings: sequences of one-character strings *)

Digits == {"0", "1", "2", "3", "4", "5", "6", "7", "8", "9"}
DigitVal == [c \in Digits |->
    CASE c = "0" -> 0 [] c = "1" -> 1 [] c = "2" -> 2 [] c = "3" -> 3
      [] c = "4" -> 4 [] c = "5" -> 5 [] c = "6" -> 6 [] c = "7" -> 7
      [] c = "8" -> 8 [] c = "9" -> 9]

Whitespace == {" "}

UpperToLower == [A |-> "a", B |-> "b", C |-> "c", D |-> "d", E |-> "e",
                 F |-> "f", G |-> "g", H |-> "h", I |-> "i", J |-> "j",
                 K |-> "k", L |-> "l", M |-> "m", N |-> "n", O |-> "o",
                 P |-> "p", Q |-> "q", R |-> "r", S |-> "s", T |-> "t",
                 U |-> "u", V |-> "v", W |-> "w", X |-> "x", Y |-> "y",
                 Z |-> "z"]

\* str.lower()
Lower(s) == [k \in 1..Len(s) |->
    IF s[k] \in DOMAIN UpperToLower THEN UpperToLower[s[k]] ELSE s[k]]

\* str.strip()
Strip(s) ==
    IF \A k \in 1..Len(s) : s[k] \in Whitespace THEN <<>>
    ELSE LET first == CHOOSE a \in 1..Len(s) :
                 s[a] \notin Whitespace /\ \A k \in 1..(a-1) : s[k] \in Whitespace
             last == CHOOSE b \in 1..Len(s) :
                 s[b] \notin Whitespace /\ \A k \in (b+1)..Len(s) : s[k] \in Whitespace
         IN SubSeq(s, first, last)

\* a in b, for strings
Contains(a, b) ==
    \E k \in 0..(Len(b) - Len(a)) : SubSeq(b, k + 1, k + Len(a)) = a

RECURSIVE DigitsValue(_)
DigitsValue(s) ==
    IF s = <<>> THEN 0
    ELSE 10 * DigitsValue(SubSeq(s, 1, Len(s) - 1)) + DigitVal[s[Len(s)]]

\* int(s) for a string: optional surrounding whitespace, an optional sign,
\* then digits in which single underscores may separate digits.
\* The result is [ok |-> TRUE, v |-> n], or [ok |-> FALSE] for ValueError.
IntOfStr(s) ==
    LET body == Strip(s)
        signed == body # <<>> /\ body[1] \in {"+", "-"}
        digs == IF signed THEN SubSeq(body, 2, Len(body)) ELSE body
        wellFormed ==
            /\ digs # <<>>
            /\ \A k \in 1..Len(digs) : digs[k] \in Digits \cup {"_"}
            /\ digs[1] # "_" /\ digs[Len(digs)] # "_"
            /\ \A k \in 1..(Len(digs) - 1) : ~(digs[k] = "_" /\ digs[k+1] = "_")
        plain == SelectSeq(digs, LAMBDA c : c # "_")
    IN IF ~wellFormed THEN [ok |-> FALSE]
       ELSE [ok |-> TRUE,
             v |-> IF signed /\ body[1] = "-" THEN 0 - DigitsValue(plain)
                   ELSE DigitsValue(plain)]

-----------------------------------------------------------------------------
(* json.loads for a string.  The grammar covered is the one the characters  *)
(* of Chars can form: whitespace, integers, strings without escapes and     *)
(* arrays.  Any other character where a value must start is a               *)
(* JSONDecodeError.  A parse yields [ok |-> TRUE, v |-> value, next |-> i]  *)
(* with i the position after the value, or [ok |-> FALSE].                  *)

ParseError == [ok |-> FALSE]

\* the first position at or after i that holds no whitespace
SkipWs(s, i) ==
    CHOOSE j \in i..(Len(s) + 1) :
        /\ \A k \in i..(j - 1) : s[k] \in Whitespace
        /\ (j = Len(s) + 1 \/ s[j] \notin Whitespace)

\* the end of the run of digits that starts at i (i itself when there is none)
DigitsEnd(s, i) ==
    CHOOSE j \in i..(Len(s) + 1) :
        /\ \A k \in i..(j - 1) : s[k] \in Digits
        /\ (j = Len(s) + 1 \/ s[j] \notin Digits)

\* number: -? (0 | [1-9][0-9]*)
ParseNumber(s, i) ==
    LET neg == s[i] = "-"
        a == IF neg THEN i + 1 ELSE i
        b == IF a <= Len(s) /\ s[a] = "0" THEN a + 1 ELSE DigitsEnd(s, a)
    IN IF a > Len(s) \/ b = a THEN ParseError
       ELSE [ok |-> TRUE,
             v |-> JInt(IF neg THEN 0 - DigitsValue(SubSeq(s, a, b - 1))
                        ELSE DigitsValue(SubSeq(s, a, b - 1))),
             next |-> b]

\* string: the text up to the next quotation mark
ParseString(s, i) ==
    IF \E j \in (i + 1)..Len(s) : s[j] = "\""
    THEN LET j == CHOOSE j \in (i + 1)..Len(s) :
                 s[j] = "\"" /\ \A k \in (i + 1)..(j - 1) : s[k] # "\""
         IN [ok |-> TRUE, v |-> JStr(SubSeq(s, i + 1, j - 1)), next |-> j + 1]
    ELSE ParseError

RECURSIVE ParseValue(_, _), ParseElems(_, _, _)

\* a value starting at position i, which holds no whitespace
ParseValue(s, i) ==
    IF i > Len(s) THEN ParseError
    ELSE IF s[i] = "[" THEN
        LET j == SkipWs(s, i + 1)
        IN IF j <= Len(s) /\ s[j] = "]"
           THEN [ok |-> TRUE, v |-> JList(<<>>), next |-> j + 1]
           ELSE ParseElems(s, j, <<>>)
    ELSE IF s[i] = "\"" THEN ParseString(s, i)
    ELSE IF s[i] \in Digits \cup {"-"} THEN ParseNumber(s, i)
    ELSE ParseError

\* the elements of an array from position i on, acc holding those before
ParseElems(s, i, acc) ==
    LET e == ParseValue(s, i)
    IN IF ~e.ok THEN ParseError
       ELSE LET j == SkipWs(s, e.next)
            IN IF j > Len(s) THEN ParseError
               ELSE IF s[j] = "]"
                    THEN [ok |-> TRUE, v |-> JList(Append(acc, e.v)), next |-> j + 1]
               ELSE IF s[j] = ","
                    THEN ParseElems(s, SkipWs(s, j + 1), Append(acc, e.v))
               ELSE ParseError

\* json.loads(s): [ok |-> TRUE, v |-> value], or [ok |-> FALSE] for
\* JSONDecodeError
json_loads(s) ==
    LET r == ParseValue(s, SkipWs(s, 1))
    IN IF r.ok /\ SkipWs(s, r.next) = Len(s) + 1
       THEN [ok |-> TRUE, v |-> r.v]
       ELSE ParseError

-----------------------------------------------------------------------------
(* The automatic answer checker *)

TypeKey == "type"
CorrectKey == "correct_answer"

manual == <<"m", "a", "n", "u", "a", "l">>
single_choice ==
    <<"s", "i", "n", "g", "l", "e", "_", "c", "h", "o", "i", "c", "e">>
multiple_choice ==
    <<"m", "u", "l", "t", "i", "p", "l", "e", "_", "c", "h", "o", "i", "c", "e">>
text_answer == <<"t", "e", "x", "t", "_", "a", "n", "s", "w", "e", "r">>

\* a verdict (is_correct, grade), and the outcome of an uncaught exception
Verdict(c, g) == [correct |-> c, score |-> g]
Raised == [raised |-> TRUE]

IsNumber(v) == v.t \in {"int", "bool"}
NumVal(v) == IF v.t = "int" THEN v.i ELSE IF v.b THEN 1 ELSE 0

\* the representative of a hashable value in a set: True is 1, False is 0
Norm(v) == IF IsNumber(v) THEN JInt(NumVal(v)) ELSE v

Hashable(v) == v.t \notin {"list", "dict"}

RECURSIVE PyEq(_, _)
\* a == b
PyEq(a, b) ==
    IF IsNumber(a) /\ IsNumber(b) THEN NumVal(a) = NumVal(b)
    ELSE IF IsList(a) /\ IsList(b)
         THEN /\ Len(a.l) = Len(b.l)
              /\ \A k \in 1..Len(a.l) : PyEq(a.l[k], b.l[k])
    ELSE a = b

RECURSIVE Orderable(_, _)
\* a < b is defined (raises no TypeError)
Orderable(a, b) ==
    IF IsNumber(a) /\ IsNumber(b) THEN TRUE
    ELSE IF IsStr(a) /\ IsStr(b) THEN TRUE
    ELSE IF IsList(a) /\ IsList(b)
         THEN LET n == IF Len(a.l) < Len(b.l) THEN Len(a.l) ELSE Len(b.l)
                  differ == {k \in 1..n : ~PyEq(a.l[k], b.l[k])}
              IN differ = {} \/
                 LET k == CHOOSE k \in differ : \A m \in differ : k <= m
                 IN Orderable(a.l[k], b.l[k])
    ELSE FALSE

\* sorted(l) raises TypeError: the sort compares two elements that have no
\* order (always so for elements of different kinds; for nested lists of
\* three or more elements this is the pessimistic reading)
SortRaises(l) ==
    \E a, b \in 1..Len(l) : a # b /\ ~Orderable(l[a], l[b])

\* sorted(a) == sorted(b), for lists whose sort does not raise
SortedEqual(a, b) ==
    /\ Len(a) = Len(b)
    /\ \A k \in 1..Len(a) :
          Cardinality({m \in 1..Len(a) : PyEq(a[m], a[k])})
        = Cardinality({m \in 1..Len(b) : PyEq(b[m], a[k])})

\* int(v) of a JSON value: [ok |-> TRUE, v |-> n], or [ok |-> FALSE] for
\* ValueError and TypeError
IntOf(v) ==
    CASE v.t = "str" -> IntOfStr(v.s)
      [] v.t \in {"int", "bool"} -> [ok |-> TRUE, v |-> NumVal(v)]
      [] OTHER -> [ok |-> FALSE]

\* a check that gives no score when a side is no integer
check_single_choice_unscored(task, user_answer) ==
    LET correct_answer == DictGet(task, CorrectKey)
    IN IF correct_answer = None THEN Verdict(FALSE, None)
       ELSE LET c == IntOf(correct_answer)
                u == IntOfStr(user_answer)
            IN IF ~c.ok \/ ~u.ok THEN Verdict(FALSE, None)
               ELSE IF u.v = c.v THEN Verdict(TRUE, JInt(5))
               ELSE Verdict(FALSE, JInt(1))

check_single_choice(task, user_answer) ==
    LET correct_answer == DictGet(task, CorrectKey)
    IN IF correct_answer = None THEN Verdict(FALSE, None)
       ELSE LET c == IntOf(correct_answer)
                u == IntOfStr(user_answer)
            IN IF ~c.ok \/ ~u.ok THEN Verdict(FALSE, JInt(1))
               ELSE IF u.v = c.v THEN Verdict(TRUE, JInt(5))
               ELSE Verdict(FALSE, JInt(1))

\* the partial credit of lines 129-140
PartialScore(correct_answers, user_answers) ==
    LET correct_count ==
            Cardinality({Norm(correct_answers[k]) : k \in 1..Len(correct_answers)}
                   \cap {Norm(user_answers[k]) : k \in 1..Len(user_answers)})
        total_correct == Len(correct_answers)
    IN IF total_correct = 0 THEN Verdict(FALSE, JInt(1))
       \* percentage >= 0.8, percentage >= 0.5
       ELSE IF 5 * correct_count >= 4 * total_correct THEN Verdict(FALSE, JInt(4))
       ELSE IF 2 * correct_count >= total_correct THEN Verdict(FALSE, JInt(3))
       ELSE Verdict(FALSE, JInt(2))

check_multiple_choice(task, user_answer) ==
    LET correct_answer_str == DictGet(task, CorrectKey)
    IN IF ~Truthy(correct_answer_str) THEN Verdict(FALSE, None)
       ELSE LET decoded == IF IsStr(correct_answer_str)
                           THEN json_loads(correct_answer_str.s)
                           ELSE [ok |-> TRUE, v |-> correct_answer_str]
            IN IF ~decoded.ok THEN Verdict(FALSE, JInt(1))
               ELSE IF ~IsList(decoded.v) THEN Verdict(FALSE, None)
               ELSE LET correct_answers == decoded.v.l
                        parsed == json_loads(user_answer)
                    IN IF ~parsed.ok THEN Verdict(FALSE, JInt(1))
                       ELSE IF ~IsList(parsed.v) THEN Verdict(FALSE, JInt(1))
                       ELSE LET user_answers == parsed.v.l
                            IN IF SortRaises(correct_answers) \/ SortRaises(user_answers)
                               THEN Verdict(FALSE, JInt(1))
                               ELSE IF SortedEqual(correct_answers, user_answers)
                               THEN Verdict(TRUE, JInt(5))
                               ELSE IF \E k \in 1..Len(correct_answers) :
                                           ~Hashable(correct_answers[k])
                               THEN Verdict(FALSE, JInt(1))
                               ELSE IF \E k \in 1..Len(user_answers) :
                                           ~Hashable(user_answers[k])
                               THEN Verdict(FALSE, JInt(1))
                               ELSE PartialScore(correct_answers, user_answers)

\* a comparison that minds the case of the letters
check_text_answer_cased(task, user_answer) ==
    LET raw == IF CorrectKey \in DOMAIN task.d THEN task.d[CorrectKey]
               ELSE JStr(<<>>)
    IN IF ~IsStr(raw) THEN Raised
       ELSE LET correct_answer == Strip(raw.s)
                user_answer_clean == Strip(user_answer)
            IN IF correct_answer = <<>> THEN Verdict(FALSE, None)
               ELSE IF user_answer_clean = correct_answer THEN Verdict(TRUE, JInt(5))
               ELSE IF Contains(correct_answer, user_answer_clean)
                       \/ Contains(user_answer_clean, correct_answer)
                    THEN Verdict(FALSE, JInt(3))
               ELSE Verdict(FALSE, JInt(1))

check_text_answer(task, user_answer) ==
    LET raw == IF CorrectKey \in DOMAIN task.d THEN task.d[CorrectKey]
               ELSE JStr(<<>>)
    IN IF ~IsStr(raw) THEN Raised      \* AttributeError: no .strip()
       ELSE LET correct_answer == Lower(Strip(raw.s))
                user_answer_clean == Lower(Strip(user_answer))
            IN IF correct_answer = <<>> THEN Verdict(FALSE, None)
               ELSE IF user_answer_clean = correct_answer THEN Verdict(TRUE, JInt(5))
               ELSE IF Contains(correct_answer, user_answer_clean)
                       \/ Contains(user_answer_clean, correct_answer)
                    THEN Verdict(FALSE, JInt(3))
               ELSE Verdict(FALSE, JInt(1))

\* a checker that gives the lowest score to a type it does not know
check_answer_low(task, user_answer) ==
    LET task_type == IF TypeKey \in DOMAIN task.d THEN task.d[TypeKey]
                     ELSE JStr(manual)
    IN IF task_type = JStr(manual) THEN Verdict(FALSE, None)
       ELSE IF task_type = JStr(single_choice)
            THEN check_single_choice(task, user_answer)
       ELSE IF task_type = JStr(multiple_choice)
            THEN check_multiple_choice(task, user_answer)
       ELSE IF task_type = JStr(text_answer)
            THEN check_text_answer(task, user_answer)
       ELSE Verdict(FALSE, JInt(1))

\* _check_answer(task, user_answer) for a task that is a dict
check_answer(task, user_answer) ==
    LET task_type == IF TypeKey \in DOMAIN task.d THEN task.d[TypeKey]
                     ELSE JStr(manual)
    IN IF task_type = JStr(manual) THEN Verdict(FALSE, None)
       ELSE IF task_type = JStr(single_choice)
            THEN check_single_choice(task, user_answer)
       ELSE IF task_type = JStr(multiple_choice)
            THEN check_multiple_choice(task, user_answer)
       ELSE IF task_type = JStr(text_answer)
            THEN check_text_answer(task, user_answer)
       ELSE Verdict(FALSE, None)

-----------------------------------------------------------------------------
(* Enumerations, rows and requests *)

\* status_Course, status_Grade (app/core/helper.py)
status_Course == {"public", "private", "draft"}
status_Grade == {"checked", "rated", "not verified"}
rated == "rated"
not_verified == "not verified"

TEACH_ROLES == {"Teacher", "Admin"}

\* a comment string; the value is only compared, and tested for emptiness
Text(a) == [t |-> "str", a |-> a]
EmptyComment == Text("")
\* the comment the submit handler writes ("Автоматическая проверка")
AutoComment == Text("Avtomaticheskaya proverka")

\* the users registered, and the role each starts with
Users == {1, 2, 3}
InitRole == [u \in Users |->
    IF u = 1 THEN "Admin" ELSE IF u = 2 THEN "Teacher" ELSE "Student"]

\* the model's bounds: course ids, submission rows, requests in flight
MaxCourses == 2
MaxSubs == 2
MaxPending == 2

CourseIds == 1..MaxCourses

\* a Submission row, built as lines 221-231 build it
Row(course_id, key, user_id, answer, status, grade, teacher_comment) ==
    [course_id |-> course_id, topic_key |-> key.topic_key,
     lecture_key |-> key.lecture_key, task_key |-> key.task_key,
     user_id |-> user_id, answer |-> answer, status |-> status,
     grade |-> grade, teacher_comment |-> teacher_comment]

Key(topic_key, lecture_key, task_key) ==
    [topic_key |-> topic_key, lecture_key |-> lecture_key, task_key |-> task_key]

Response(op, code) == [op |-> op, code |-> code]

\* a 200 reply that returns the Submission row of the given id
Returned(op, id) == [op |-> op, code |-> 200, id |-> id]

-----------------------------------------------------------------------------
(* Course content *)

LecturesKey == "lectures"
TasksKey == "tasks"

\* lines 29-30: the file of the course is there
HasContent(course_id) == course_id \in DOMAIN files

\* a file whose text json.loads refuses (lines 32-35)
InvalidJSON == [t |-> "invalid"]

\* _load_course_content: the parsed file of the course; a missing file
\* raises HTTPException(404), a text that is no JSON HTTPException(500)
load_course_content(course_id) ==
    IF ~HasContent(course_id) THEN Raised
    ELSE IF files[course_id] = InvalidJSON THEN Raised
    ELSE files[course_id]

\* _get_task_from_course: the value at
\* content[topic_key]["lectures"][lecture_key]["tasks"][task_key], None when
\* the file cannot be loaded or a level of the path is missing.  A level that is no
\* dict either fails its "in" test or raises on the subscript that follows,
\* and the except clause turns that into None as well.
get_task_from_course(course_id, key) ==
    IF load_course_content(course_id) = Raised THEN None
    ELSE LET content == load_course_content(course_id)
         IN IF ~(IsDict(content) /\ key.topic_key \in DOMAIN content.d) THEN None
            ELSE LET topic == content.d[key.topic_key]
                 IN IF ~(IsDict(topic) /\ LecturesKey \in DOMAIN topic.d) THEN None
                    ELSE LET lectures == topic.d[LecturesKey]
                         IN IF ~(IsDict(lectures) /\ key.lecture_key \in DOMAIN lectures.d)
                            THEN None
                            ELSE LET lecture == lectures.d[key.lecture_key]
                                 IN IF ~(IsDict(lecture) /\ TasksKey \in DOMAIN lecture.d)
                                    THEN None
                                    ELSE LET tasks == lecture.d[TasksKey]
                                         IN IF ~(IsDict(tasks) /\ key.task_key \in DOMAIN tasks.d)
                                            THEN None
                                            ELSE tasks.d[key.task_key]

-----------------------------------------------------------------------------
(* POST /submissions: create_or_update_submission *)

\* an automatic check that gives the lowest grade to a task it cannot find
AutoCheckLowWhenMissing(task_info, answer) ==
    IF ~Truthy(task_info) THEN [auto_checked |-> TRUE, auto_grade |-> JInt(1)]
    ELSE IF ~IsDict(task_info) THEN Raised
    ELSE IF DictGet(task_info, TypeKey) = JStr(manual)
         THEN [auto_checked |-> FALSE, auto_grade |-> None]
    ELSE LET v == check_answer(task_info, answer)
         IN IF v = Raised THEN Raised
            ELSE IF v.score # None
                 THEN [auto_checked |-> TRUE, auto_grade |-> v.score]
            ELSE [auto_checked |-> FALSE, auto_grade |-> None]

\* lines 195-202: [auto_checked, auto_grade], or Raised when task_info has
\* no .get (a task entry that is no dict) or _check_answer raises
AutoCheck(task_info, answer) ==
    IF ~Truthy(task_info) THEN [auto_checked |-> FALSE, auto_grade |-> None]
    ELSE IF ~IsDict(task_info) THEN Raised
    ELSE IF DictGet(task_info, TypeKey) = JStr(manual)
         THEN [auto_checked |-> FALSE, auto_grade |-> None]
    ELSE LET v == check_answer(task_info, answer)
         IN IF v = Raised THEN Raised
            ELSE IF v.score # None
                 THEN [auto_checked |-> TRUE, auto_grade |-> v.score]
            ELSE [auto_checked |-> FALSE, auto_grade |-> None]

\* line 199: _check_answer called on the entry found under a task key; an
\* entry that is no dict has no .get, and the call raises
CheckAnswer(course_id, key, user_answer) ==
    /\ resp' = [op |-> "_check_answer",
                user_answer |-> user_answer,
                result |-> LET task == get_task_from_course(course_id, key)
                           IN IF IsDict(task) THEN check_answer(task, user_answer)
                              ELSE Raised]
    /\ UNCHANGED <<role, courses, files, uc, submissions, pending>>

\* lines 182-190: the ids of the rows that match the key; .first() takes one
Matching(course_id, key, user_id) ==
    {id \in 1..Len(submissions) :
        /\ submissions[id].course_id = course_id
        /\ submissions[id].topic_key = key.topic_key
        /\ submissions[id].lecture_key = key.lecture_key
        /\ submissions[id].task_key = key.task_key
        /\ submissions[id].user_id = user_id}

\* the result of the lookup: the id of a matching row, 0 for None
Existing(course_id, key, user_id) ==
    IF Matching(course_id, key, user_id) = {} THEN {0}
    ELSE Matching(course_id, key, user_id)

\* an update that leaves the teacher's comment on a row that is not checked
\* automatically
UpdatedRowKeepsComment(submission, answer, auto) ==
    [submission EXCEPT
        !.answer = answer,
        !.status = IF auto.auto_checked THEN rated ELSE not_verified,
        !.grade = auto.auto_grade,
        !.teacher_comment = IF auto.auto_checked THEN AutoComment ELSE @]

\* an update that stores the answer and keeps the earlier verdict
UpdatedRowKeepsVerdict(submission, answer, auto) ==
    [submission EXCEPT !.answer = answer]

\* lines 205-215: the existing row overwritten
UpdatedRow(row, answer, auto) ==
    IF auto.auto_checked
    THEN [row EXCEPT !.answer = answer, !.status = rated,
                     !.grade = auto.auto_grade, !.teacher_comment = AutoComment]
    ELSE [row EXCEPT !.answer = answer, !.status = not_verified,
                     !.grade = None, !.teacher_comment = None]

\* lines 221-231: the new row
NewRow(course_id, key, user_id, answer, auto) ==
    Row(course_id, key, user_id, answer,
        IF auto.auto_checked THEN rated ELSE not_verified,
        auto.auto_grade,
        IF auto.auto_checked THEN AutoComment ELSE None)

\* session.add and commit of a new Submission: the table takes the row under
\* the next id and refuses nothing (section 5 of the specification leaves
\* the uniqueness of the key to the handler)
session_add(table, row) == Append(table, row)

\* a write that always inserts, whatever the lookup found
WrittenInsertOnly(existing, course_id, key, user_id, answer, auto) ==
    session_add(submissions, NewRow(course_id, key, user_id, answer, auto))

\* a write that, on a resubmit, overwrites the rows of every user for the key
WrittenForEveryUser(existing, course_id, key, user_id, answer, auto) ==
    IF existing # 0
    THEN [id \in 1..Len(submissions) |->
            IF /\ submissions[id].course_id = course_id
               /\ submissions[id].topic_key = key.topic_key
               /\ submissions[id].lecture_key = key.lecture_key
               /\ submissions[id].task_key = key.task_key
            THEN UpdatedRow(submissions[id], answer, auto)
            ELSE submissions[id]]
    ELSE session_add(submissions, NewRow(course_id, key, user_id, answer, auto))

\* lines 204-235: the table after the write, existing being the looked-up id
Written(existing, course_id, key, user_id, answer, auto) ==
    IF existing # 0
    THEN [submissions EXCEPT ![existing] = UpdatedRow(@, answer, auto)]
    ELSE session_add(submissions, NewRow(course_id, key, user_id, answer, auto))

\* the whole handler, run without interference
Submit(u, course_id, key, answer) ==
    /\ IF course_id \notin DOMAIN courses
       THEN resp' = Response("submit", 404) /\ UNCHANGED submissions
       ELSE LET auto == AutoCheck(get_task_from_course(course_id, key), answer)
            IN IF auto = Raised
               THEN resp' = Response("submit", 500) /\ UNCHANGED submissions
               ELSE \E existing \in Existing(course_id, key, u) :
                       /\ existing = 0 => Len(submissions) < MaxSubs
                       /\ submissions' =
                              Written(existing, course_id, key, u, answer, auto)
                       /\ resp' = Returned("submit",
                              IF existing # 0 THEN existing
                              ELSE Len(submissions) + 1)
    /\ UNCHANGED <<role, courses, files, uc, pending>>

\* the handler as two steps of a request in flight: the reads of lines
\* 178-202 (course, existing row, task, automatic check) ...
Idle == [t |-> "idle"]

SubmitLookup(slot, u, course_id, key, answer) ==
    /\ pending[slot] = Idle
    /\ UNCHANGED <<role, courses, files, uc, submissions>>
    /\ IF course_id \notin DOMAIN courses
       THEN resp' = Response("submit", 404) /\ UNCHANGED pending
       ELSE LET auto == AutoCheck(get_task_from_course(course_id, key), answer)
            IN IF auto = Raised
               THEN resp' = Response("submit", 500) /\ UNCHANGED pending
               ELSE \E existing \in Existing(course_id, key, u) :
                       /\ pending' = [pending EXCEPT ![slot] =
                              [t |-> "submit", user_id |-> u,
                               course_id |-> course_id, key |-> key,
                               answer |-> answer, existing |-> existing,
                               auto |-> auto]]
                       /\ UNCHANGED resp

\* ... and the write and commit of lines 204-235
SubmitWrite(slot) ==
    /\ pending[slot] # Idle
    /\ LET p == pending[slot]
       IN /\ p.existing = 0 => Len(submissions) < MaxSubs
          /\ submissions' = Written(p.existing, p.course_id, p.key, p.user_id,
                                    p.answer, p.auto)
    /\ pending' = [pending EXCEPT ![slot] = Idle]
    /\ resp' = Returned("submit",
                  IF pending[slot].existing # 0 THEN pending[slot].existing
                  ELSE Len(submissions) + 1)
    /\ UNCHANGED <<role, courses, files, uc>>

-----------------------------------------------------------------------------
(* PUT /submissions/{submission_id}/grade: grade_submission *)

\* a SubmissionUpdateGrade payload
Payload(status, grade, teacher_comment) ==
    [status |-> status, grade |-> grade, teacher_comment |-> teacher_comment]

\* line 389
is_auto_checked(submission) ==
    submission.status = rated /\ submission.teacher_comment = AutoComment

\* a grading that stores whatever comment the payload carries
GradedRowStoresComment(submission, payload) ==
    IF is_auto_checked(submission)
    THEN [submission EXCEPT
            !.grade = IF payload.grade # None THEN payload.grade ELSE @,
            !.teacher_comment =
                IF payload.teacher_comment # None THEN payload.teacher_comment
                ELSE @]
    ELSE [submission EXCEPT !.status = payload.status,
                            !.grade = payload.grade,
                            !.teacher_comment = payload.teacher_comment]

\* a grading that, on a row not checked automatically, keeps the stored
\* grade and comment where the payload carries null
GradedRowKeepsOnNull(submission, payload) ==
    IF is_auto_checked(submission)
    THEN [submission EXCEPT
            !.grade = IF payload.grade # None THEN payload.grade ELSE @,
            !.teacher_comment =
                IF /\ payload.teacher_comment # None
                   /\ payload.teacher_comment # EmptyComment
                   /\ payload.teacher_comment # AutoComment
                THEN payload.teacher_comment
                ELSE IF payload.teacher_comment = EmptyComment
                     THEN AutoComment
                     ELSE @]
    ELSE [submission EXCEPT
            !.status = payload.status,
            !.grade = IF payload.grade # None THEN payload.grade ELSE @,
            !.teacher_comment =
                IF payload.teacher_comment # None THEN payload.teacher_comment
                ELSE @]

\* lines 391-405: the row after the teacher's grade
GradedRow(submission, payload) ==
    IF is_auto_checked(submission)
    THEN [submission EXCEPT
            !.grade = IF payload.grade # None THEN payload.grade ELSE @,
            !.teacher_comment =
                IF /\ payload.teacher_comment # None
                   /\ payload.teacher_comment # EmptyComment
                   /\ payload.teacher_comment # AutoComment
                THEN payload.teacher_comment
                ELSE IF payload.teacher_comment = EmptyComment
                     THEN AutoComment
                     ELSE @]
    ELSE [submission EXCEPT !.status = payload.status,
                            !.grade = payload.grade,
                            !.teacher_comment = payload.teacher_comment]

\* the checks without the comparison of the caller with the course's creator
GradeCodeAnyCaller(u, submission_id) ==
    IF submission_id \notin 1..Len(submissions) THEN 404
    ELSE IF submissions[submission_id].course_id \notin DOMAIN courses THEN 404
    ELSE 200

\* lines 376-385: the status code the checks give, 200 when they all pass
GradeCode(u, submission_id) ==
    IF submission_id \notin 1..Len(submissions) THEN 404
    ELSE IF submissions[submission_id].course_id \notin DOMAIN courses THEN 404
    ELSE IF courses[submissions[submission_id].course_id].creator_id # u THEN 403
    ELSE 200

GradeSubmission(u, submission_id, payload) ==
    /\ resp' = IF GradeCode(u, submission_id) = 200
               THEN Returned("grade", submission_id)
               ELSE Response("grade", GradeCode(u, submission_id))
    /\ IF GradeCode(u, submission_id) = 200
       THEN submissions' = [submissions EXCEPT ![submission_id] =
                                GradedRow(@, payload)]
       ELSE UNCHANGED submissions
    /\ UNCHANGED <<role, courses, files, uc, pending>>

-----------------------------------------------------------------------------
(* Courses: create_course, update_course, delete_course *)

\* the id SQLite gives a new Course row: one more than the largest in use
NextCourseId ==
    IF DOMAIN courses = {} THEN 1
    ELSE 1 + CHOOSE m \in DOMAIN courses : \A c \in DOMAIN courses : c <= m

Course(status, creator_id) == [status |-> status, creator_id |-> creator_id]

Put(f, k, v) == [x \in DOMAIN f \cup {k} |-> IF x = k THEN v ELSE f[x]]
Drop(f, k) == [x \in DOMAIN f \ {k} |-> f[x]]

CreateCourse(u, status, content) ==
    /\ IF role[u] \notin TEACH_ROLES
       THEN resp' = Response("create_course", 403) /\ UNCHANGED <<courses, files>>
       ELSE /\ NextCourseId <= MaxCourses
            /\ courses' = Put(courses, NextCourseId, Course(status, u))
            /\ files' = Put(files, NextCourseId, content)
            /\ resp' = Response("create_course", 200)
    /\ UNCHANGED <<role, uc, submissions, pending>>

\* checks that also ask the caller for a teaching role
CreatorCodeTeachOnly(u, course_id) ==
    IF course_id \notin DOMAIN courses THEN 404
    ELSE IF courses[course_id].creator_id # u \/ role[u] \notin TEACH_ROLES THEN 403
    ELSE 200

\* the status code of the creator-only handlers (update_course,
\* delete_course, enroll_student, unenroll_student)
CreatorCode(u, course_id) ==
    IF course_id \notin DOMAIN courses THEN 404
    ELSE IF courses[course_id].creator_id # u THEN 403
    ELSE 200

\* no status in a CourseUpdate
NoStatus == "null"

UpdateCourse(u, course_id, status, content) ==
    /\ resp' = Response("update_course", CreatorCode(u, course_id))
    /\ IF CreatorCode(u, course_id) = 200
       THEN /\ courses' = [courses EXCEPT ![course_id].status =
                              IF status # NoStatus THEN status ELSE @]
            /\ files' = IF content # None THEN Put(files, course_id, content)
                        ELSE files
       ELSE UNCHANGED <<courses, files>>
    /\ UNCHANGED <<role, uc, submissions, pending>>

DeleteCourse(u, course_id) ==
    /\ resp' = Response("delete_course", CreatorCode(u, course_id))
    /\ IF CreatorCode(u, course_id) = 200
       THEN /\ courses' = Drop(courses, course_id)
            /\ files' = Drop(files, course_id)
       ELSE UNCHANGED <<courses, files>>
    /\ UNCHANGED <<role, uc, submissions, pending>>

-----------------------------------------------------------------------------
(* Roles: make_teacher, revoke_teacher *)

MakeTeacher(u, user_id) ==
    /\ IF role[u] # "Admin"
       THEN resp' = Response("make_teacher", 403) /\ UNCHANGED role
       ELSE IF user_id \notin Users
       THEN resp' = Response("make_teacher", 404) /\ UNCHANGED role
       ELSE /\ role' = [role EXCEPT ![user_id] = "Teacher"]
            /\ resp' = Response("make_teacher", 200)
    /\ UNCHANGED <<courses, files, uc, submissions, pending>>

RevokeTeacher(u, user_id) ==
    /\ IF role[u] # "Admin"
       THEN resp' = Response("revoke_teacher", 403) /\ UNCHANGED role
       ELSE IF user_id \notin Users
       THEN resp' = Response("revoke_teacher", 404) /\ UNCHANGED role
       ELSE IF user_id = u
       THEN resp' = Response("revoke_teacher", 400) /\ UNCHANGED role
       ELSE /\ role' = [role EXCEPT ![user_id] =
                            IF @ = "Teacher" THEN "Student" ELSE @]
            /\ resp' = Response("revoke_teacher", 200)
    /\ UNCHANGED <<courses, files, uc, submissions, pending>>

-----------------------------------------------------------------------------
(* Enrollment: enroll_student, unenroll_student *)

\* a 200 reply with its message
Message(op, message) == [op |-> op, code |-> 200, message |-> message]

EnrollStudent(u, course_id, user_id) ==
    /\ IF CreatorCode(u, course_id) # 200
       THEN resp' = Response("enroll", CreatorCode(u, course_id)) /\ UNCHANGED uc
       ELSE IF user_id \notin Users
       THEN resp' = Response("enroll", 404) /\ UNCHANGED uc
       ELSE IF <<user_id, course_id>> \in uc
       THEN resp' = Message("enroll", "already enrolled") /\ UNCHANGED uc
       ELSE /\ uc' = uc \cup {<<user_id, course_id>>}
            /\ resp' = Message("enroll", "enrolled")
    /\ UNCHANGED <<role, courses, files, submissions, pending>>

UnenrollStudent(u, course_id, user_id) ==
    /\ IF CreatorCode(u, course_id) # 200
       THEN resp' = Response("unenroll", CreatorCode(u, course_id)) /\ UNCHANGED uc
       ELSE IF <<user_id, course_id>> \notin uc
       THEN resp' = Message("unenroll", "was not enrolled") /\ UNCHANGED uc
       ELSE /\ uc' = uc \ {<<user_id, course_id>>}
            /\ resp' = Message("unenroll", "unenrolled")
    /\ UNCHANGED <<role, courses, files, submissions, pending>>

-----------------------------------------------------------------------------
(* GET /courses/{course_id}/content: get_course_content *)

\* a check that lets an enrolled user into a draft
canViewEnrolledDraft(course_id, user_id) ==
    IF courses[course_id].status = "public" THEN TRUE
    ELSE courses[course_id].creator_id = user_id \/ <<user_id, course_id>> \in uc

\* a check that asks for the creator alone outside public courses
canViewCreatorOnly(course_id, user_id) ==
    IF courses[course_id].status = "public" THEN TRUE
    ELSE courses[course_id].creator_id = user_id

\* lines 105-117: the access check passes
canViewCourseContent(course_id, user_id) ==
    IF courses[course_id].status = "draft"
    THEN courses[course_id].creator_id = user_id
    ELSE IF courses[course_id].status = "private"
    THEN courses[course_id].creator_id = user_id \/ <<user_id, course_id>> \in uc
    ELSE TRUE

ContentCode(u, course_id) ==
    IF course_id \notin DOMAIN courses THEN 404
    ELSE IF ~canViewCourseContent(course_id, u) THEN 403
    ELSE IF ~HasContent(course_id) THEN 404
    ELSE 200

GetCourseContent(u, course_id) ==
    /\ resp' = Response("content", ContentCode(u, course_id))
    /\ UNCHANGED <<role, courses, files, uc, submissions, pending>>

-----------------------------------------------------------------------------
(* GET /submissions/review: list_for_review *)

\* no course_id, no lecture_key in the query
NoCourse == 0
NoLecture == "null"

\* lines 283-286, 305-308: the users enrolled in one of the courses
EnrolledIn(course_ids) == {e[1] : e \in {x \in uc : x[2] \in course_ids}}

\* a selection that never looks at the enrollment
ReviewOfCourseUnfiltered(course_id) ==
    {id \in 1..Len(submissions) : submissions[id].course_id = course_id}

\* lines 273-291: the ids selected for one course of the caller
ReviewOfCourse(course_id) ==
    IF courses[course_id].status = "public"
    THEN {id \in 1..Len(submissions) :
             /\ submissions[id].course_id = course_id
             /\ submissions[id].user_id \in EnrolledIn({course_id})}
    ELSE {id \in 1..Len(submissions) : submissions[id].course_id = course_id}

\* lines 292-330: the ids selected over all courses of the caller
ReviewOfAll(u) ==
    LET teacher_course_ids == {c \in DOMAIN courses : courses[c].creator_id = u}
        public_course_ids == {c \in teacher_course_ids : courses[c].status = "public"}
        enrolled_user_ids == EnrolledIn(public_course_ids)
    IN {id \in 1..Len(submissions) :
           \E cid \in teacher_course_ids :
              /\ submissions[id].course_id = cid
              /\ cid \in public_course_ids =>
                     submissions[id].user_id \in enrolled_user_ids}

\* the response: the status code and the ids of the rows returned
ReviewResult(u, course_id, lecture_key) ==
    IF course_id # NoCourse /\ CreatorCode(u, course_id) # 200
    THEN [op |-> "review", code |-> CreatorCode(u, course_id), body |-> {}]
    ELSE LET selected == IF course_id # NoCourse THEN ReviewOfCourse(course_id)
                         ELSE ReviewOfAll(u)
         IN [op |-> "review", code |-> 200,
             body |-> {id \in selected :
                          lecture_key # NoLecture =>
                              submissions[id].lecture_key = lecture_key}]

ListForReview(u, course_id, lecture_key) ==
    /\ resp' = ReviewResult(u, course_id, lecture_key)
    /\ UNCHANGED <<role, courses, files, uc, submissions, pending>>

-----------------------------------------------------------------------------
(* Inputs *)

\* a course content tree with one topic, one lecture and two tasks: k1 is
\* checked automatically, k2 is left to the teacher
ContentA ==
    JDict([t1 |-> JDict([lectures |-> JDict([l1 |-> JDict([tasks |-> JDict(
        [k1 |-> JDict([type |-> JStr(single_choice), correct_answer |-> JInt(2)]),
         k2 |-> JDict([type |-> JStr(manual)])])])])])])

K1 == Key("t1", "l1", "k1")
K2 == Key("t1", "l1", "k2")
\* no such lecture in ContentA
K3 == Key("t1", "l2", "k1")
Keys == {K1, K2, K3}

Answers == {<<"2">>, <<"x">>}

\* the payloads a teacher sends: every status, a grade that is absent, on
\* the scale 1..5 or outside it, a comment that is absent, empty, the
\* automatic one or the teacher's own
Payloads ==
    {Payload(rated, JInt(4), Text("ok")),
     Payload(rated, None, None),
     Payload(rated, JInt(4), EmptyComment),
     Payload(rated, None, AutoComment),
     Payload(rated, JInt(7), None),
     Payload(not_verified, JInt(4), None),
     Payload("checked", None, Text("ok")),
     Payload("checked", JInt(3), AutoComment)}

\* The task entries and the raw answers the checker is run on.

\* tasks left to the teacher: type manual, no type, an unknown type, a type
\* that is no string
ManualTasks ==
    {JDict([type |-> JStr(manual)]),
     JDict([type |-> JStr(manual), correct_answer |-> JInt(2)]),
     JDict([correct_answer |-> JInt(2)]),
     JDict([type |-> JStr(<<"e", "s", "s", "a", "y">>)]),
     JDict([type |-> JStr(<<"e", "s", "s", "a", "y">>), correct_answer |-> JStr(<<"P", "a">>)]),
     JDict([type |-> JInt(5), correct_answer |-> JList(<<JInt(1), JInt(2)>>)])}

\* single_choice tasks: the correct index absent, null, a number, a string
\* that int() takes or refuses, a boolean, a list
SingleChoiceTasks ==
    {JDict([type |-> JStr(single_choice)]),
     JDict([type |-> JStr(single_choice), correct_answer |-> None]),
     JDict([type |-> JStr(single_choice), correct_answer |-> JInt(2)]),
     JDict([type |-> JStr(single_choice), correct_answer |-> JStr(<<"2">>)]),
     JDict([type |-> JStr(single_choice), correct_answer |-> JStr(<<" ", "2", " ">>)]),
     JDict([type |-> JStr(single_choice), correct_answer |-> JStr(<<"x">>)]),
     JDict([type |-> JStr(single_choice), correct_answer |-> [t |-> "bool", b |-> TRUE]]),
     JDict([type |-> JStr(single_choice), correct_answer |-> JList(<<JInt(2)>>)])}

\* multiple_choice tasks: arrays of indices with and without repeats, an
\* array of five, arrays given as JSON text, and values that are no array
MultipleChoiceTasks ==
    {JDict([type |-> JStr(multiple_choice)]),
     JDict([type |-> JStr(multiple_choice), correct_answer |-> JList(<<JInt(1), JInt(2)>>)]),
     JDict([type |-> JStr(multiple_choice), correct_answer |-> JList(<<JInt(2), JInt(1), JInt(1)>>)]),
     JDict([type |-> JStr(multiple_choice), correct_answer |-> JList(<<JInt(1), JInt(2), JInt(3)>>)]),
     JDict([type |-> JStr(multiple_choice), correct_answer |-> JList(<<JInt(1), JInt(2), JInt(3), JInt(4), JInt(5)>>)]),
     JDict([type |-> JStr(multiple_choice), correct_answer |-> JStr(<<"[", "1", ",", "2", "]">>)]),
     JDict([type |-> JStr(multiple_choice), correct_answer |-> JStr(<<"[", "]">>)]),
     JDict([type |-> JStr(multiple_choice), correct_answer |-> JStr(<<"[", "1">>)]),
     JDict([type |-> JStr(multiple_choice), correct_answer |-> JInt(7)]),
     JDict([type |-> JStr(multiple_choice), correct_answer |-> JList(<<JInt(1), JStr(<<"a">>)>>)])}

\* text_answer tasks: the expected text with capitals and blanks around it,
\* empty, blank, absent, and values that are no string
TextAnswerTasks ==
    {JDict([type |-> JStr(text_answer), correct_answer |-> JStr(<<"P", "a">>)]),
     JDict([type |-> JStr(text_answer), correct_answer |-> JStr(<<" ", "p", "A", " ">>)]),
     JDict([type |-> JStr(text_answer), correct_answer |-> JStr(<<>>)]),
     JDict([type |-> JStr(text_answer), correct_answer |-> JStr(<<" ", " ">>)]),
     JDict([type |-> JStr(text_answer)]),
     JDict([type |-> JStr(text_answer), correct_answer |-> JInt(5)]),
     JDict([type |-> JStr(text_answer), correct_answer |-> None]),
     JDict([type |-> JStr(text_answer), correct_answer |-> JList(<<JInt(1)>>)])}

\* entries under a task key that are no object, and the empty object
BrokenTasks ==
    {JInt(5), JStr(<<"P", "a">>), JList(<<JInt(1)>>), JDict(<<>>)}

Tasks ==
    ManualTasks \cup SingleChoiceTasks \cup MultipleChoiceTasks
        \cup TextAnswerTasks \cup BrokenTasks

\* raw answers: numbers as int() takes and refuses them, JSON arrays in
\* several orders, with repeats, blanks and faults, and texts
RawAnswers ==
    {<<>>,
     <<"2">>,
     <<" ", "2">>,
     <<"+", "2">>,
     <<"3">>,
     <<"x">>,
     <<"1", "_", "0">>,
     <<"[", "1", ",", "2", "]">>,
     <<"[", "2", ",", "1", "]">>,
     <<"[", " ", "1", " ", ",", " ", "2", " ", "]">>,
     <<"[", "1", ",", "1", ",", "2", "]">>,
     <<"[", "1", "]">>,
     <<"[", "3", "]">>,
     <<"[", "1", ",", "2", ",", "3", "]">>,
     <<"[", "3", ",", "2", ",", "1", "]">>,
     <<"[", "1", ",", "2", ",", "4", "]">>,
     <<"[", "1", ",", "2", ",", "3", ",", "4", "]">>,
     <<"[", "1", ",", "2", ",", "3", ",", "4", ",", "5", "]">>,
     <<"[", "1", ",", "2", ",", "3", ",", "4", ",", "6", "]">>,
     <<"[", "]">>,
     <<"[", "1">>,
     <<"[", "\"", "a", "\"", "]">>,
     <<"[", "1", ",", "\"", "a", "\"", "]">>,
     <<"[", "[", "1", "]", "]">>,
     <<"p", "a">>,
     <<" ", "P", "A", " ">>,
     <<"x", "P", "a", "y">>,
     <<"p">>,
     <<"b">>}

\* the content file of a course whose task t1/l1/k1 is the given entry
ContentOf(task) ==
    JDict([t1 |-> JDict([lectures |-> JDict([l1 |-> JDict([tasks |->
        JDict([k1 |-> task])])])])])

\* content trees with the given value at one level of the path to t1/l1
TopicOf(topic) == JDict([t1 |-> topic])
LecturesOf(lectures) == TopicOf(JDict([lectures |-> lectures]))
LectureOf(lecture) == LecturesOf(JDict([l1 |-> lecture]))
TasksOf(tasks) == LectureOf(JDict([tasks |-> tasks]))

\* the states of a course's content file in which tasks cannot be found: no
\* file, a text that is no JSON, and trees in which a level of the path is
\* absent or is no object (the last one lacks k1 and l2 only); ContentA
\* stands beside them as the file in good order
BrokenFiles ==
    {<<>>,
     <<InvalidJSON>>,
     <<JInt(5)>>,
     <<JList(<<JStr(<<"t", "1">>)>>)>>,
     <<JDict(<<>>)>>,
     <<TopicOf(JStr(<<"l", "e", "c", "t", "u", "r", "e", "s">>))>>,
     <<TopicOf(JDict([Tasks |-> JStr(<<"t", "a", "s", "k", "s", "1">>)]))>>,
     <<LecturesOf(None)>>,
     <<LecturesOf(JList(<<JStr(<<"l", "1">>)>>))>>,
     <<LecturesOf(JDict([l2 |-> JDict(<<>>)]))>>,
     <<LectureOf(JInt(0))>>,
     <<LectureOf(JDict(<<>>))>>,
     <<TasksOf(JList(<<JStr(<<"k", "1">>), JStr(<<"k", "2">>)>>))>>,
     <<TasksOf(JStr(<<"k", "1">>))>>,
     <<TasksOf(JDict([k1 |-> None]))>>,
     <<TasksOf(JDict([k2 |-> JDict([type |-> JStr(single_choice),
                                    correct_answer |-> JInt(2)])]))>>}

\* the teacher who creates the courses, the student who submits, and a
\* third user
Teacher == 2
Student == 3
Admin == 1

\* the lecture_key values of a review query
Lectures == {NoLecture, "l1", "l2"}

-----------------------------------------------------------------------------
(* Specifications *)

Init ==
    /\ role = InitRole
    /\ courses = <<>>
    /\ files = <<>>
    /\ uc = {}
    /\ submissions = <<>>
    /\ pending = [slot \in 1..MaxPending |-> Idle]
    /\ resp = Response("startup", 200)

\* the submission lifecycle: requests handled one after another
Next ==
    \/ CreateCourse(Teacher, "draft", ContentA)
    \/ \E u \in {Teacher, Student}, c \in CourseIds : DeleteCourse(u, c)
    \/ \E k \in {K1, K2}, a \in Answers : Submit(Student, 1, k, a)
    \/ \E id \in 1..MaxSubs, p \in Payloads : GradeSubmission(Teacher, id, p)
    \/ \E id \in 1..MaxSubs :
          GradeSubmission(Student, id, Payload(rated, JInt(4), Text("ok")))

Spec == Init /\ [][Next]_vars

\* access to courses and to their submissions: courses of every status,
\* enrollment, submissions by an enrolled and by a never enrolled user
NextAccess ==
    \/ \E status \in status_Course : CreateCourse(Teacher, status, ContentA)
    \/ \E u \in {Teacher, Student}, c \in CourseIds, status \in status_Course :
          UpdateCourse(u, c, status, None)
    \/ \E c \in CourseIds : EnrollStudent(Teacher, c, Student)
    \/ \E c \in CourseIds : UnenrollStudent(Teacher, c, Student)
    \/ \E c \in CourseIds : Submit(Student, c, K2, <<"x">>)
    \/ Submit(Admin, 1, K2, <<"x">>)
    \/ \E u \in {Teacher, Student}, c \in CourseIds : GetCourseContent(u, c)
    \/ \E u \in {Teacher, Student}, c \in CourseIds \cup {NoCourse}, l \in Lectures :
          ListForReview(u, c, l)

SpecAccess == Init /\ [][NextAccess]_vars

\* the management of courses while the roles of their creators change
NextRoles ==
    \/ \E u \in Users, status \in status_Course : CreateCourse(u, status, ContentA)
    \/ \E u \in Users, user_id \in Users : MakeTeacher(u, user_id)
    \/ \E u \in Users, user_id \in Users : RevokeTeacher(u, user_id)
    \/ \E u \in Users, c \in CourseIds, status \in status_Course :
          UpdateCourse(u, c, status, None)
    \/ \E u \in Users, c \in CourseIds : DeleteCourse(u, c)

SpecRoles == Init /\ [][NextRoles]_vars

\* the checker and the submit handler on one task: a public course of the
\* teacher exists, as seed.py creates one, and its task t1/l1/k1 is any of
\* the task entries
InitGrader ==
    /\ role = InitRole
    /\ courses = <<Course("public", Teacher)>>
    /\ \E task \in Tasks : files = <<ContentOf(task)>>
    /\ uc = {}
    /\ submissions = <<>>
    /\ pending = [slot \in 1..MaxPending |-> Idle]
    /\ resp = Response("startup", 200)

NextGrader ==
    \/ \E a \in RawAnswers : CheckAnswer(1, K1, a)
    \/ \E a \in RawAnswers : Submit(Student, 1, K1, a)

SpecGrader == InitGrader /\ [][NextGrader]_vars

\* submissions to a course whose content file is in any of the broken states
\* or in good order
InitContent ==
    /\ role = InitRole
    /\ courses = <<Course("public", Teacher)>>
    /\ files \in BrokenFiles \cup {<<ContentA>>}
    /\ uc = {}
    /\ submissions = <<>>
    /\ pending = [slot \in 1..MaxPending |-> Idle]
    /\ resp = Response("startup", 200)

NextContent ==
    \E u \in {Student, Admin}, k \in Keys, a \in Answers : Submit(u, 1, k, a)

SpecContent == InitContent /\ [][NextContent]_vars

\* two users submit to a course of the teacher, who grades their rows with
\* a full payload and with one that sets the row back
FramePayloads ==
    {Payload(rated, JInt(4), Text("ok")),
     Payload(not_verified, JInt(4), None)}

NextFrame ==
    \/ CreateCourse(Teacher, "public", ContentA)
    \/ \E u \in {Student, Admin}, k \in {K1, K2}, a \in Answers :
          Submit(u, 1, k, a)
    \/ \E id \in 1..MaxSubs, p \in FramePayloads : GradeSubmission(Teacher, id, p)

SpecFrame == Init /\ [][NextFrame]_vars

\* concurrent submissions: each request in flight reads, then writes
NextConc ==
    \/ CreateCourse(Teacher, "public", ContentA)
    \/ \E slot \in 1..MaxPending, k \in {K1, K2}, a \in Answers :
          SubmitLookup(slot, Student, 1, k, a)
    \/ \E slot \in 1..MaxPending : SubmitWrite(slot)

SpecConc == Init /\ [][NextConc]_vars

-----------------------------------------------------------------------------
(* Claims about the submission lifecycle *)

Ids == 1..Len(submissions)

KeyOf(row) == Key(row.topic_key, row.lecture_key, row.task_key)

\* C1: every stored submission with a non-null grade has status rated.
C1_GradeOnlyWhenRated ==
    \A id \in Ids : submissions[id].grade # None => submissions[id].status = rated

\* at most one row for each (course_id, topic_key, lecture_key, task_key,
\* user_id)
UniquePerKey ==
    \A i, j \in Ids :
        (/\ submissions[i].course_id = submissions[j].course_id
         /\ KeyOf(submissions[i]) = KeyOf(submissions[j])
         /\ submissions[i].user_id = submissions[j].user_id) => i = j

C4_FailuresChangeNothing ==
    [][/\ resp'.op = "grade" =>
           \A u \in Users, id \in 1..MaxSubs :
             LET missing == \/ id \notin Ids
                            \/ submissions[id].course_id \notin DOMAIN courses
                 creator == /\ ~missing
                            /\ courses[submissions[id].course_id].creator_id = u
                 asClaimed == /\ missing => resp'.code = 404
                              /\ (~missing /\ ~creator) => resp'.code = 403
                              /\ creator => resp'.code = 200
                              /\ ~creator => submissions' = submissions
             IN ~asClaimed => \A p \in Payloads : ~GradeSubmission(u, id, p)
       /\ resp'.op = "submit" =>
           \A u \in Users, c \in CourseIds, k \in Keys, a \in Answers :
             (c \notin DOMAIN courses /\ Submit(u, c, k, a)) =>
                 resp'.code = 404 /\ submissions' = submissions
      ]_vars

\* a grade request was refused with 404 because the submission's course has
\* been deleted
C4_Witness ==
    /\ resp = Response("grade", 404)
    /\ \E id \in Ids : submissions[id].course_id \notin DOMAIN courses

C10_GradeLeavesRated ==
    [][\A u \in Users, id \in 1..MaxSubs, p \in Payloads :
          (resp'.op = "grade" /\ resp'.code = 200 /\ GradeSubmission(u, id, p)) =>
              submissions'[id].status = rated
      ]_vars

-----------------------------------------------------------------------------
(* Claims about concurrent submissions *)

\* C3: two create_or_update_submission requests for the same key, their
\* lookups and their writes interleaved in any order, never leave two rows
\* for that key.
C3_NeverTwoRowsForAKey ==
    \A i \in Ids : \A j \in Ids \ {i} :
        \/ submissions[i].user_id # submissions[j].user_id
        \/ submissions[i].course_id # submissions[j].course_id
        \/ KeyOf(submissions[i]) # KeyOf(submissions[j])

-----------------------------------------------------------------------------
(* Claims about access to courses and to their submissions *)

\* the rows of a course handed in by users enrolled in that course, under
\* the lecture filter of the query
EnrolledRows(c, l) ==
    {id \in Ids : /\ submissions[id].course_id = c
                  /\ <<submissions[id].user_id, c>> \in uc
                  /\ l # NoLecture => submissions[id].lecture_key = l}

\* all the rows of a course, under the lecture filter of the query
AllRows(c, l) ==
    {id \in Ids : /\ submissions[id].course_id = c
                  /\ l # NoLecture => submissions[id].lecture_key = l}

\* C5: for a draft course the access check of get_course_content lets a
\* user through if and only if the user is the course's creator, enrolled
\* or not.
C5_DraftCreatorOnly ==
    [][\A u \in Users, c \in DOMAIN courses :
          (/\ resp'.op = "content"
           /\ courses[c].status = "draft"
           /\ GetCourseContent(u, c)) =>
              (resp'.code # 403 <=> courses[c].creator_id = u)
      ]_vars

\* the content of a draft was refused to a user enrolled in it
C5_Witness ==
    /\ resp = Response("content", 403)
    /\ DOMAIN courses = {1}
    /\ courses[1].status = "draft"
    /\ <<Student, 1>> \in uc

\* C6: for a private course the access check of get_course_content lets a
\* user through if and only if the user is the creator or is enrolled in the
\* course at the time of the call; once unenroll_student has removed the
\* enrollment, a user who is not the creator is refused.
C6_PrivateCreatorOrEnrolled ==
    [][/\ \A u \in Users, c \in DOMAIN courses :
             (/\ resp'.op = "content"
              /\ courses[c].status = "private"
              /\ GetCourseContent(u, c)) =>
                 (resp'.code # 403 <=>
                     courses[c].creator_id = u \/ <<u, c>> \in uc)
       /\ \A t \in Users, c \in DOMAIN courses, u \in Users :
             (/\ resp' = Message("unenroll", "unenrolled")
              /\ courses[c].status = "private"
              /\ courses[c].creator_id # u
              /\ UnenrollStudent(t, c, u)) =>
                 /\ ContentCode(u, c) # 403
                 /\ ContentCode(u, c)' = 403
      ]_vars

\* the student has just been unenrolled from a private course
C6_Witness ==
    /\ resp = Message("unenroll", "unenrolled")
    /\ DOMAIN courses = {1}
    /\ courses[1].status = "private"
    /\ <<Student, 1>> \notin uc

\* C7: for a public course the access check of get_course_content lets
\* every user through, and list_for_review with the course's id returns
\* exactly the course's rows whose user is enrolled in the course: nothing
\* when nobody is enrolled, never the row of a user who is not enrolled.
C7_PublicOpenReviewEnrolled ==
    [][/\ \A u \in Users, c \in DOMAIN courses :
             (/\ resp'.op = "content"
              /\ courses[c].status = "public"
              /\ GetCourseContent(u, c)) => resp'.code # 403
       /\ \A u \in Users, c \in DOMAIN courses, l \in Lectures :
             (/\ resp'.op = "review"
              /\ resp'.code = 200
              /\ courses[c].status = "public"
              /\ ListForReview(u, c, l)) => resp'.body = EnrolledRows(c, l)
      ]_vars

\* a review of a public course returned the enrolled student's row and left
\* out the row of the user who is not enrolled
C7_Witness ==
    /\ resp.op = "review"
    /\ resp.code = 200
    /\ resp.body = {1}
    /\ DOMAIN courses = {1}
    /\ courses[1].status = "public"
    /\ uc = {<<Student, 1>>}
    /\ Len(submissions) = 2
    /\ submissions[1].user_id = Student
    /\ submissions[2].user_id = Admin

\* C8: list_for_review without course_id returns exactly the union, over
\* the courses the caller created, of what it returns for each course: all
\* the rows of a private or draft course, and of a public course the rows
\* whose user is enrolled in that same course; never a row of a course the
\* caller did not create.
C8_ReviewAllIsUnionPerCourse ==
    [][\A u \in Users, l \in Lectures :
          (resp'.op = "review" /\ ListForReview(u, NoCourse, l)) =>
             /\ resp'.code = 200
             /\ resp'.body =
                   UNION {IF courses[c].status = "public"
                          THEN EnrolledRows(c, l) ELSE AllRows(c, l) :
                          c \in {x \in DOMAIN courses : courses[x].creator_id = u}}
      ]_vars
-----------------------------------------------------------------------------
(* Claims about grading and resubmission *)

\* C11: grade_submission on a row checked automatically (status rated, the
\* comment the automatic one) leaves the automatic comment in place when the
\* payload's comment is absent, empty or the automatic one, and stores the
\* payload's comment otherwise.
C11_AutoCommentKept ==
    [][(resp'.op = "grade" /\ resp'.code = 200) =>
          \A u \in Users, p \in Payloads :
             (/\ submissions[resp'.id].status = rated
              /\ submissions[resp'.id].teacher_comment = AutoComment
              /\ GradeSubmission(u, resp'.id, p)) =>
                 submissions'[resp'.id].teacher_comment =
                    IF p.teacher_comment \in {None, EmptyComment, AutoComment}
                    THEN AutoComment
                    ELSE p.teacher_comment
      ]_vars

\* the teacher has graded an automatically checked answer with 4 and the
\* automatic comment is still there
C11_Witness ==
    /\ resp.op = "grade"
    /\ resp.code = 200
    /\ KeyOf(submissions[resp.id]) = K1
    /\ submissions[resp.id].status = rated
    /\ submissions[resp.id].grade = JInt(4)
    /\ submissions[resp.id].teacher_comment = AutoComment

C20_SentinelRowStaysRated ==
    [][(resp'.op = "grade" /\ resp'.code = 200) =>
          \A u \in Users, p \in Payloads :
             (/\ submissions[resp'.id].teacher_comment = AutoComment
              /\ GradeSubmission(u, resp'.id, p)) =>
                 /\ submissions'[resp'.id].status = rated
                 /\ submissions'[resp'.id].grade =
                       IF p.grade = None THEN submissions[resp'.id].grade
                       ELSE p.grade
      ]_vars
-----------------------------------------------------------------------------
(* Claims about the management of courses *)

\* C18: update_course and delete_course on an existing course succeed if and
\* only if the caller is the course's creator, whatever the caller's role:
\* the creator's request changes the status or removes the course, and any
\* other caller, a Teacher or Admin too, gets 403 and the course stays as it
\* was.
C18_ManageIffCreator ==
    [][/\ resp'.op = "update_course" =>
           \A u \in Users, c \in DOMAIN courses, status \in status_Course :
              UpdateCourse(u, c, status, None) =>
                 IF courses[c].creator_id = u
                 THEN /\ resp'.code = 200
                      /\ courses' = [courses EXCEPT ![c].status = status]
                 ELSE /\ resp'.code = 403
                      /\ UNCHANGED <<courses, files>>
       /\ resp'.op = "delete_course" =>
           \A u \in Users, c \in DOMAIN courses :
              DeleteCourse(u, c) =>
                 IF courses[c].creator_id = u
                 THEN /\ resp'.code = 200
                      /\ c \notin DOMAIN courses'
                 ELSE /\ resp'.code = 403
                      /\ UNCHANGED <<courses, files>>
      ]_vars

\* a course was updated by its creator, who has lost the Teacher role and is
\* a Student again
C18_Witness ==
    /\ resp = Response("update_course", 200)
    /\ DOMAIN courses = {1}
    /\ courses[1].creator_id = Teacher
    /\ courses[1].status = "public"
    /\ role[Teacher] = "Student"
-----------------------------------------------------------------------------
(* Claims about the automatic checker *)

\* the entry of the task the checker is run on
TheTask == get_task_from_course(1, K1)

\* the last step was a call of _check_answer on a task of the given type
Checked(type) ==
    /\ resp.op = "_check_answer"
    /\ IsDict(TheTask)
    /\ DictGet(TheTask, TypeKey) = JStr(type)

\* a JSON array of integers
IntArray(v) == IsList(v) /\ \A k \in 1..Len(v.l) : v.l[k].t = "int"

\* the set of the integers in an array
Indices(v) == {v.l[k].i : k \in 1..Len(v.l)}

\* the correct answer of the task, decoded when it is stored as JSON text
CorrectArray ==
    LET c == DictGet(TheTask, CorrectKey)
    IN IF IsStr(c)
       THEN IF json_loads(c.s).ok THEN json_loads(c.s).v ELSE None
       ELSE c

\* the raw answer of the call, decoded
ChosenArray ==
    IF json_loads(resp.user_answer).ok THEN json_loads(resp.user_answer).v
    ELSE None

\* C12: for a task of type manual, of no type, or of any type other than
\* single_choice, multiple_choice and text_answer, _check_answer returns
\* (false, null) for every answer, and a submit for the task succeeds and is
\* stored as not verified with no grade.
C12_OtherTypesLeftToTeacher ==
    (/\ IsDict(TheTask)
     /\ DictGet(TheTask, TypeKey) \notin
            {JStr(single_choice), JStr(multiple_choice), JStr(text_answer)}) =>
        /\ resp.op = "_check_answer" => resp.result = Verdict(FALSE, None)
        /\ resp.op = "submit" => resp.code = 200 /\ resp.id \in Ids
        /\ \A id \in Ids : /\ submissions[id].status = not_verified
                            /\ submissions[id].grade = None

\* an answer to a task of an unknown type was submitted and waits for the
\* teacher
C12_Witness ==
    /\ IsDict(TheTask)
    /\ DictGet(TheTask, TypeKey) = JStr(<<"e", "s", "s", "a", "y">>)
    /\ resp.op = "submit"
    /\ resp.code = 200
    /\ submissions[resp.id].status = not_verified
    /\ submissions[resp.id].grade = None

\* C13: for a single_choice task the verdict is (false, null) when
\* correct_answer is absent; (true, 5) when correct_answer and the raw answer
\* both convert to integers and these are equal, (false, 1) when they both
\* convert and differ, and (false, 1) when one of them does not convert.
C13_SingleChoiceVerdict ==
    Checked(single_choice) =>
        LET correct == DictGet(TheTask, CorrectKey)
            chosen == IntOfStr(resp.user_answer)
        IN IF correct = None THEN resp.result = Verdict(FALSE, None)
           ELSE IF IntOf(correct).ok /\ chosen.ok
                THEN resp.result = IF IntOf(correct).v = chosen.v
                                   THEN Verdict(TRUE, JInt(5))
                                   ELSE Verdict(FALSE, JInt(1))
                ELSE resp.result = Verdict(FALSE, JInt(1))

\* the index stored as the text " 2 " was matched by the answer "+2"
C13_Witness ==
    /\ Checked(single_choice)
    /\ DictGet(TheTask, CorrectKey) = JStr(<<" ", "2", " ">>)
    /\ resp.user_answer = <<"+", "2">>
    /\ resp.result = Verdict(TRUE, JInt(5))

\* C14: for a multiple_choice task whose correct_answer is a non-empty array
\* of integers the verdict is (true, 5) exactly when the raw answer is an
\* array of integers with the same set of indices, whatever the order and
\* the repeats in either array.
C14_SameSetIsCorrect ==
    (/\ Checked(multiple_choice)
     /\ IntArray(CorrectArray)
     /\ CorrectArray.l # <<>>) =>
        (resp.result = Verdict(TRUE, JInt(5)) <=>
            /\ IntArray(ChosenArray)
            /\ Indices(ChosenArray) = Indices(CorrectArray))

\* C15: for a multiple_choice task and a raw answer that is an array of
\* integers other than the correct one, the verdict is (false, s), s given by
\* the share r of the correct indices that were chosen, both arrays taken as
\* sets: 4 for r >= 0.8, 3 for 0.5 <= r < 0.8, 2 for r < 0.5.
C15_PartialCreditByShare ==
    (/\ Checked(multiple_choice)
     /\ IntArray(CorrectArray)
     /\ CorrectArray.l # <<>>
     /\ IntArray(ChosenArray)
     /\ Indices(ChosenArray) # Indices(CorrectArray)) =>
        LET hit == Cardinality(Indices(CorrectArray) \cap Indices(ChosenArray))
            all == Cardinality(Indices(CorrectArray))
        IN resp.result =
              Verdict(FALSE, IF 5 * hit >= 4 * all THEN JInt(4)
                             ELSE IF 2 * hit >= all THEN JInt(3)
                             ELSE JInt(2))

\* C16: for a text_answer task whose correct_answer is a string, both sides
\* trimmed and put in lower case: (false, null) for every answer when the
\* correct text is empty; otherwise (true, 5) when the two are equal,
\* (false, 3) when they differ and one contains the other, (false, 1) in the
\* remaining case.
C16_TextAnswerVerdict ==
    (Checked(text_answer) /\ IsStr(DictGet(TheTask, CorrectKey))) =>
        LET correct == Lower(Strip(DictGet(TheTask, CorrectKey).s))
            given == Lower(Strip(resp.user_answer))
        IN resp.result =
              IF correct = <<>> THEN Verdict(FALSE, None)
              ELSE IF given = correct THEN Verdict(TRUE, JInt(5))
              ELSE IF Contains(correct, given) \/ Contains(given, correct)
                   THEN Verdict(FALSE, JInt(3))
              ELSE Verdict(FALSE, JInt(1))

\* the expected text " pA " was found inside the answer "xPay"
C16_Witness ==
    /\ Checked(text_answer)
    /\ DictGet(TheTask, CorrectKey) = JStr(<<" ", "p", "A", " ">>)
    /\ resp.user_answer = <<"x", "P", "a", "y">>
    /\ resp.result = Verdict(FALSE, JInt(3))

\* C17: grading never raises: whatever entry the content holds under the
\* task key, an object of any type and correct_answer or no object at all,
\* and whatever the raw answer, the submit succeeds and stores the
\* submission.
C17_SubmitNeverFails ==
    resp.op = "submit" => resp.code = 200 /\ resp.id \in Ids

-----------------------------------------------------------------------------
(* Claims about the teacher's overwrite and the range of grades *)

C22_GradeWithinScale ==
    \A id \in Ids :
        \/ submissions[id].grade = None
        \/ /\ submissions[id].grade.t = "int"
           /\ submissions[id].grade.i \in 1..5

-----------------------------------------------------------------------------
(* Claims about the null score *)

\* C23: for a multiple_choice task whose correct_answer is absent or empty
\* (an empty array, an empty string, or a string that decodes to an empty
\* array) the verdict is (false, null) for every raw answer; for one whose
\* correct_answer is a non-empty array, a raw answer that is no valid JSON or
\* decodes to something other than an array gets (false, 1).
C23_EmptyCorrectIsNull ==
    Checked(multiple_choice) =>
        LET correct == DictGet(TheTask, CorrectKey)
        IN /\ (\/ correct = None
               \/ correct = JList(<<>>)
               \/ correct = JStr(<<>>)
               \/ IsStr(correct) /\ CorrectArray = JList(<<>>)) =>
                  resp.result = Verdict(FALSE, None)
           /\ (IsList(correct) /\ correct.l # <<>> /\ ~IsList(ChosenArray)) =>
                  resp.result = Verdict(FALSE, JInt(1))

\* C24: whether _check_answer returns a null score depends on the task alone
\* and never on the answer: for every task either every raw answer gets the
\* score null or every raw answer gets a score from 1 to 5, and the verdict
\* is correct exactly when the score is 5.
C24_NullScoreByTaskAlone ==
    (resp.op = "_check_answer" /\ IsDict(TheTask)) =>
        /\ \/ \A a \in RawAnswers :
                 /\ check_answer(TheTask, a) # Raised
                 /\ check_answer(TheTask, a).score = None
           \/ \A a \in RawAnswers :
                 /\ check_answer(TheTask, a) # Raised
                 /\ check_answer(TheTask, a).score \in {JInt(g) : g \in 1..5}
        /\ resp.result # Raised
        /\ resp.result.correct <=> resp.result.score = JInt(5)

-----------------------------------------------------------------------------
(* Claims about content that holds no task *)

\* C25: when the task cannot be resolved for an existing course (the content
\* file is missing, is no valid JSON, or a level of the path
\* content[topic_key]["lectures"][lecture_key]["tasks"][task_key] is missing
\* or of the wrong shape), the submit succeeds and stores the submission with
\* status not verified, no grade and no comment.
C25_UnresolvedTaskStored ==
    [][resp'.op = "submit" =>
          \A u \in Users, k \in Keys, a \in Answers :
             (get_task_from_course(1, k) = None /\ Submit(u, 1, k, a)) =>
                 /\ resp'.code = 200
                 /\ resp'.id \in 1..Len(submissions')
                 /\ submissions'[resp'.id] =
                        Row(1, k, u, a, not_verified, None, None)
      ]_vars

\* an answer was stored for a course whose "tasks" level is a list of keys
C25_Witness ==
    /\ files = <<TasksOf(JList(<<JStr(<<"k", "1">>), JStr(<<"k", "2">>)>>))>>
    /\ resp.op = "submit"
    /\ resp.code = 200
    /\ submissions[resp.id].status = not_verified
    /\ submissions[resp.id].grade = None
    /\ submissions[resp.id].teacher_comment = None

-----------------------------------------------------------------------------
(* Claims about who may write submissions, and what a write touches *)

\* C26: create_or_update_submission stores a submission only for a user who,
\* at the time of the call, passes the content access check of the course
\* (draft: the creator; private: the creator or an enrolled user; public:
\* anyone).
C26_SubmitOnlyWithAccess ==
    [][(resp'.op = "submit" /\ resp'.code = 200) =>
          canViewCourseContent(submissions'[resp'.id].course_id,
                               submissions'[resp'.id].user_id)
      ]_vars

\* C27: grade_submission takes its branch for automatically checked rows
\* (status and comment protected) only for a row whose status, grade and
\* comment were last written by the automatic check of a submit; a row last
\* written by a teacher's full overwrite is never treated as checked
\* automatically.  The task k2 of ContentA is manual, so no row for k2 is
\* ever written by the automatic check, and no successful grade of such a
\* row may find it automatically checked.
C27_SentinelBranchOnlyAfterAutoCheck ==
    [][(resp'.op = "grade" /\ resp'.code = 200) =>
          (KeyOf(submissions[resp'.id]) = K2 =>
              ~is_auto_checked(submissions[resp'.id]))
      ]_vars

\* C28: each write touches at most one submission.  A submit by user u
\* creates or changes only the row of u for the submitted course and key and
\* leaves every other row as it was; grade_submission changes only status,
\* grade and teacher_comment of the addressed row, never its answer, its
\* user_id or its key, and no other row.
C28_WritesTouchOneRow ==
    [][/\ (resp'.op = "submit" /\ resp'.code = 200) =>
             \A u \in {Student, Admin}, c \in {1}, k \in {K1, K2}, a \in Answers :
                Submit(u, c, k, a) =>
                    /\ resp'.id \in 1..Len(submissions')
                    /\ Len(submissions') =
                           IF resp'.id \in Ids THEN Len(submissions)
                           ELSE Len(submissions) + 1
                    /\ submissions'[resp'.id].user_id = u
                    /\ submissions'[resp'.id].course_id = c
                    /\ KeyOf(submissions'[resp'.id]) = k
                    /\ resp'.id \in Ids =>
                          /\ submissions[resp'.id].user_id = u
                          /\ submissions[resp'.id].course_id = c
                          /\ KeyOf(submissions[resp'.id]) = k
                    /\ \A id \in Ids \ {resp'.id} :
                          submissions'[id] = submissions[id]
       /\ (resp'.op = "grade" /\ resp'.code = 200) =>
             /\ resp'.id \in Ids
             /\ submissions' = [submissions EXCEPT ![resp'.id] =
                    [@ EXCEPT
                        !.status = submissions'[resp'.id].status,
                        !.grade = submissions'[resp'.id].grade,
                        !.teacher_comment =
                            submissions'[resp'.id].teacher_comment]]
      ]_vars

\* one user has resubmitted while another user's row for the same task was
\* stored: the two rows hold different answers
C28_Witness ==
    /\ resp.op = "submit"
    /\ resp.code = 200
    /\ resp.id = 1
    /\ Len(submissions) = 2
    /\ submissions[1].course_id = submissions[2].course_id
    /\ KeyOf(submissions[1]) = KeyOf(submissions[2])
    /\ submissions[1].user_id # submissions[2].user_id
    /\ submissions[1].answer # submissions[2].answer

=============================================================================
